---- MODULE Spec2Model ----
(***************************************************************************)
(* Result-analysis and verdict pipelines of secure-api-system:             *)
(*   scripts/analyze-performance.py  (k6 metrics against fixed thresholds) *)
(*   scripts/analyze-security.py     (OWASP ZAP alerts: classify, count,   *)
(*                                    rank, truncate, verdict)             *)
(* Numbers are fixed-point integers in thousandths (Scale): a latency of   *)
(* 500.001 ms is 500001.  Text that the code takes apart (riskdesc) is a   *)
(* sequence of one-character strings; other text is an opaque string.      *)
(* datetime.now() (the summaries' timestamp) is left out of the records.   *)
(***************************************************************************)
EXTENDS Integers, Sequences, FiniteSets, TLC

VARIABLES
    perf_pc,        \* position of analyze-performance.py main()
    results_file,   \* what open()/json.load() find at args.results_file
    perf_summary,   \* summary returned by analyze_performance_results
    perf_written,   \* output files written by main(), in order
    perf_exit,      \* process exit code, NoExit while running
    sec_pc,         \* position of analyze-security.py main()
    results_files,  \* all_files handed to analyze_zap_results
    file_idx,       \* number of paths the for loop has consumed
    all_alerts,     \* all_alerts
    scan_info,      \* scan_info
    warnings,       \* paths a warning was printed for, in order
    sorted_alerts,  \* sorted_alerts
    sec_summary,    \* summary returned by analyze_zap_results
    fail_on_high,   \* args.fail_on_high
    sec_written,    \* output files written by main(), in order
    sec_exit        \* process exit code, NoExit while running

perf_vars == <<perf_pc, results_file, perf_summary, perf_written, perf_exit>>
sec_vars == <<sec_pc, results_files, file_idx, all_alerts, scan_info, warnings,
              sorted_alerts, sec_summary, fail_on_high, sec_written, sec_exit>>
vars == <<perf_pc, results_file, perf_summary, perf_written, perf_exit,
          sec_pc, results_files, file_idx, all_alerts, scan_info, warnings,
          sorted_alerts, sec_summary, fail_on_high, sec_written, sec_exit>>

\* ---------------------------------------------------------------- bounds
\* Sampled metric values lie within MaxDelta thousandths of each threshold.
MaxDelta == 1
\* Longest list of scan-file paths.
MaxFiles == 2

\* ------------------------------------------------------- shared helpers
Scale == 1000
NoExit == -1
NoSummary == [none |-> TRUE]
Missing == [kind |-> "missing"]
Malformed == [kind |-> "malformed"]

\* dict.get(key, default)
Get(d, key, default) == IF key \in DOMAIN d THEN d[key] ELSE default

\* the empty dict {}
EmptyDict == [k \in {} |-> 0]

\* a dict with the one entry key: value when present, {} otherwise
Opt(present, key, value) == IF present THEN key :> value ELSE EmptyDict

\* round(x, 2) on thousandths: nearest hundredth, ties to even
Round2(v) ==
    LET q == v \div 10
        r == v % 10
    IN  IF r < 5 THEN q * 10
        ELSE IF r > 5 THEN (q + 1) * 10
        ELSE IF q % 2 = 0 THEN q * 10 ELSE (q + 1) * 10

\* ============================================= analyze-performance.py

\* thresholds[metric]['threshold']
Threshold ==
    [avg_response_time |-> 500,
     p95_response_time |-> 1000,
     p99_response_time |-> 2000,
     error_rate        |-> 1,
     throughput        |-> 100]

\* thresholds[metric]['unit']
Unit ==
    [avg_response_time |-> "ms",
     p95_response_time |-> "ms",
     p99_response_time |-> "ms",
     error_rate        |-> "%",
     throughput        |-> "req/s"]

PolicyMetrics == DOMAIN Threshold

\* variant: the upper limits are exclusive
Passed_Strict(metric, value) ==
    IF metric # "throughput"
    THEN value < Threshold[metric] * Scale
    ELSE value >= Threshold[metric] * Scale

\* variant: a metric without a value (0) is not judged and counts as passed
Passed_ZeroPasses(metric, value) ==
    \/ value = 0
    \/ IF metric # "throughput"
       THEN value <= Threshold[metric] * Scale
       ELSE value >= Threshold[metric] * Scale

\* the comparison of the threshold loop
Passed(metric, value) ==
    IF metric = "error_rate"
    THEN value <= Threshold[metric] * Scale
    ELSE IF metric # "throughput"
         THEN value <= Threshold[metric] * Scale
         ELSE value >= Threshold[metric] * Scale

\* the raw values extracted from the parsed document
MetricValues(data) ==
    LET metrics == Get(data, "metrics", EmptyDict)
        http_req_duration == Get(metrics, "http_req_duration", EmptyDict)
        http_req_failed == Get(metrics, "http_req_failed", EmptyDict)
        http_reqs == Get(metrics, "http_reqs", EmptyDict)
    IN  [avg_response_time |-> Get(http_req_duration, "avg", 0),
         p95_response_time |-> Get(http_req_duration, "p(95)", 0),
         p99_response_time |-> Get(http_req_duration, "p(99)", 0),
         error_rate        |-> Get(http_req_failed, "rate", 0) * 100,
         throughput        |-> Get(http_reqs, "rate", 0)]

\* variant: a metric whose value is 0 (absent from the document) is skipped
Results_SkipZero(values) ==
    [metric \in {m \in DOMAIN Threshold : values[m] # 0} |->
        [value     |-> Round2(values[metric]),
         threshold |-> Threshold[metric],
         unit      |-> Unit[metric],
         passed    |-> Passed(metric, values[metric]),
         status    |-> IF Passed(metric, values[metric]) THEN "PASS" ELSE "FAIL"]]

\* the results dict built by the threshold loop
Results(values) ==
    [metric \in DOMAIN Threshold |->
        [value     |-> Round2(values[metric]),
         threshold |-> Threshold[metric],
         unit      |-> Unit[metric],
         passed    |-> Passed(metric, values[metric]),
         status    |-> IF Passed(metric, values[metric]) THEN "PASS" ELSE "FAIL"]]

\* variant: overall_pass is overwritten by each metric, the last one decides
OverallPass_LastOnly(results) == results["throughput"].passed

\* overall_pass after the threshold loop
OverallPass(results) == \A metric \in DOMAIN results : results[metric].passed

\* the summary of a document that was read and parsed
analyze_performance_results(data) ==
    LET metrics == Get(data, "metrics", EmptyDict)
        values == MetricValues(data)
        results == Results(values)
    IN  [overall_status    |-> IF OverallPass(results) THEN "pass" ELSE "fail",
         total_requests    |-> Get(Get(metrics, "http_reqs", EmptyDict), "count", 0),
         max_vus           |-> Get(Get(metrics, "vus", EmptyDict), "max", 0),
         test_duration     |-> Get(Get(data, "state", EmptyDict), "testRunDurationMs", 0),
         avg_response_time |-> Round2(values.avg_response_time),
         p95_response_time |-> Round2(values.p95_response_time),
         p99_response_time |-> Round2(values.p99_response_time),
         error_rate        |-> Round2(values.error_rate),
         throughput        |-> Round2(values.throughput),
         data_received     |-> Get(Get(metrics, "data_received", EmptyDict), "count", 0),
         data_sent         |-> Get(Get(metrics, "data_sent", EmptyDict), "count", 0),
         results           |-> results]

\* ---- input documents of the performance pipeline
\* values for a metric field: absent, 0, and the threshold's neighbourhood
Absent == -1
Samples(limit) ==
    {Absent, 0} \cup {limit * Scale + d : d \in (0 - MaxDelta)..MaxDelta}

\* a sub-mapping with the given optional fields
SubMap(keys, vals) ==
    [k \in {keys[i] : i \in {j \in 1..Len(keys) : vals[j] # Absent}} |->
        vals[CHOOSE i \in 1..Len(keys) : keys[i] = k]]

\* rate of http_req_failed is a fraction: 0.01 is 10 thousandths
RateSamples == {Absent, 0} \cup {10 + d : d \in (0 - MaxDelta)..MaxDelta}

\* documents that carry a metrics mapping
MetricsDocs ==
    { [metrics |->
          ("http_req_duration" :> SubMap(<<"avg", "p(95)", "p(99)">>, <<a, p95, p99>>))
          @@ ("http_req_failed" :> SubMap(<<"rate">>, <<er>>))
          @@ ("http_reqs" :> SubMap(<<"rate", "count">>, <<tp, IF x THEN 12 ELSE Absent>>))
          @@ Opt(x, "vus", [max |-> 50])
          @@ Opt(x, "data_received", [count |-> 4096])
          @@ Opt(x, "iterations", [count |-> 7, rate |-> 999 * Scale])]
      @@ Opt(x, "state", [testRunDurationMs |-> 30000])
      @@ Opt(x, "root_group", [name |-> "unknown"]) :
        a \in Samples(Threshold.avg_response_time),
        p95 \in Samples(Threshold.p95_response_time),
        p99 \in Samples(Threshold.p99_response_time),
        er \in RateSamples,
        tp \in Samples(Threshold.throughput),
        x \in BOOLEAN }

\* documents in which whole sub-mappings, or metrics itself, are absent
SparseDocs ==
    { EmptyDict,
      [state |-> [testRunDurationMs |-> 1500]],
      [metrics |-> EmptyDict],
      [metrics |-> [http_reqs |-> [rate |-> 100 * Scale]]],
      [metrics |-> [http_req_duration |-> [avg |-> 501 * Scale]]],
      [metrics |-> [custom_metric |-> [avg |-> 9999 * Scale, rate |-> 0]]] }

PerfFiles == {Missing, Malformed} \cup MetricsDocs \cup SparseDocs

IsDoc(f) == "kind" \notin DOMAIN f

\* ---- main() of analyze-performance.py
PerfIdle ==
    /\ perf_pc = "idle" /\ results_file = Missing /\ perf_summary = NoSummary
    /\ perf_written = <<>> /\ perf_exit = NoExit

SecIdle ==
    /\ sec_pc = "idle" /\ results_files = <<>> /\ file_idx = 0
    /\ all_alerts = <<>> /\ scan_info = EmptyDict /\ warnings = <<>>
    /\ sorted_alerts = <<>> /\ sec_summary = NoSummary
    /\ fail_on_high = FALSE /\ sec_written = <<>> /\ sec_exit = NoExit

PerfInit ==
    /\ perf_pc = "analyze"
    /\ results_file \in PerfFiles
    /\ perf_summary = NoSummary
    /\ perf_written = <<>>
    /\ perf_exit = NoExit
    /\ SecIdle

\* variant: a missing or unparseable file is analysed as an empty document
PerfAnalyze_EmptyOnFailure ==
    /\ perf_pc = "analyze"
    /\ perf_summary' = analyze_performance_results(
                          IF IsDoc(results_file) THEN results_file ELSE EmptyDict)
    /\ perf_pc' = "write_report"
    /\ UNCHANGED <<results_file, perf_written, perf_exit>>
    /\ UNCHANGED sec_vars

\* summary = analyze_performance_results(args.results_file): sys.exit(1) on a
\* missing or unparseable file, the summary otherwise
PerfAnalyze ==
    /\ perf_pc = "analyze"
    /\ IF IsDoc(results_file)
       THEN /\ perf_summary' = analyze_performance_results(results_file)
            /\ perf_pc' = "write_report"
            /\ perf_exit' = perf_exit
       ELSE /\ perf_exit' = 1
            /\ perf_pc' = "exited"
            /\ perf_summary' = perf_summary
    /\ UNCHANGED <<results_file, perf_written>>
    /\ UNCHANGED sec_vars

\* variant: a failed run exits before the report is written
PerfWriteReport_ExitOnFail ==
    /\ perf_pc = "write_report"
    /\ IF perf_summary.overall_status # "pass"
       THEN /\ perf_exit' = 1
            /\ perf_pc' = "exited"
            /\ perf_written' = perf_written
       ELSE /\ perf_written' = Append(perf_written, "report")
            /\ perf_pc' = "write_json"
            /\ perf_exit' = perf_exit
    /\ UNCHANGED <<results_file, perf_summary>>
    /\ UNCHANGED sec_vars

\* with open(args.output, 'w') ...: f.write(report)
PerfWriteReport ==
    /\ perf_pc = "write_report"
    /\ perf_written' = Append(perf_written, "report")
    /\ perf_pc' = "write_json"
    /\ UNCHANGED <<results_file, perf_summary, perf_exit>>
    /\ UNCHANGED sec_vars

\* with open(args.json, 'w') ...: json.dump(summary, ...)
PerfWriteJson ==
    /\ perf_pc = "write_json"
    /\ perf_written' = Append(perf_written, "json")
    /\ perf_pc' = "decide_exit"
    /\ UNCHANGED <<results_file, perf_summary, perf_exit>>
    /\ UNCHANGED sec_vars

\* if summary['overall_status'] != 'pass': sys.exit(1); else fall off main()
PerfDecideExit ==
    /\ perf_pc = "decide_exit"
    /\ perf_exit' = IF perf_summary.overall_status # "pass" THEN 1 ELSE 0
    /\ perf_pc' = "exited"
    /\ UNCHANGED <<results_file, perf_summary, perf_written>>
    /\ UNCHANGED sec_vars

PerfNext == PerfAnalyze \/ PerfWriteReport \/ PerfWriteJson \/ PerfDecideExit

SpecPerf == PerfInit /\ [][PerfNext]_vars

\* ================================================ analyze-security.py

\* ---- text as sequences of characters
High == <<"H", "i", "g", "h">>
Medium == <<"M", "e", "d", "i", "u", "m">>
Low == <<"L", "o", "w">>
Informational ==
    <<"I", "n", "f", "o", "r", "m", "a", "t", "i", "o", "n", "a", "l">>
Unknown == <<"U", "n", "k", "n", "o", "w", "n">>
\* the separator ' - '
Sep == <<" ", "-", " ">>

\* RISK_LEVELS
RISK_LEVELS ==
    (High :> [priority |-> 4, emoji |-> "red", color |-> "red"])
    @@ (Medium :> [priority |-> 3, emoji |-> "yellow", color |-> "yellow"])
    @@ (Low :> [priority |-> 2, emoji |-> "green", color |-> "green"])
    @@ (Informational :> [priority |-> 1, emoji |-> "blue", color |-> "blue"])

\* str.find(sep, start): the first index >= start at which sep occurs, 0 if none
Find(s, sep, start) ==
    LET hits == {i \in start..(Len(s) - Len(sep) + 1) :
                    SubSeq(s, i, i + Len(sep) - 1) = sep}
    IN  IF hits = {} THEN 0 ELSE CHOOSE i \in hits : \A j \in hits : i <= j

\* sep in s
Contains(s, sep) == Find(s, sep, 1) # 0

\* str.split(sep): the segments between non-overlapping occurrences of sep,
\* found left to right
RECURSIVE Split(_, _)
Split(s, sep) ==
    LET i == Find(s, sep, 1)
    IN  IF i = 0 THEN <<s>>
        ELSE <<SubSeq(s, 1, i - 1)>> \o Split(SubSeq(s, i + Len(sep), Len(s)), sep)

\* variant: a level that is not in RISK_LEVELS is stored as 'Unknown'
Classify_Normalised(risk_desc) ==
    IF Contains(risk_desc, Sep)
    THEN [risk_level       |-> IF Split(risk_desc, Sep)[1] \in DOMAIN RISK_LEVELS
                               THEN Split(risk_desc, Sep)[1] ELSE Unknown,
          confidence_level |-> Split(risk_desc, Sep)[2]]
    ELSE [risk_level |-> Unknown, confidence_level |-> Unknown]

\* the risk level parsing of one alert
Classify(risk_desc) ==
    IF Contains(risk_desc, Sep)
    THEN [risk_level       |-> Split(risk_desc, Sep)[1],
          confidence_level |-> Split(risk_desc, Sep)[2]]
    ELSE [risk_level |-> Unknown, confidence_level |-> Unknown]

\* alert_info of one alert of a file, with the derived fields
AlertInfo(file_path, alert) ==
    [file             |-> file_path,
     name             |-> Get(alert, "name", ""),
     riskdesc         |-> Get(alert, "riskdesc", <<>>),
     confidence       |-> Get(alert, "confidence", ""),
     riskcode         |-> Get(alert, "riskcode", ""),
     desc             |-> Get(alert, "desc", ""),
     solution         |-> Get(alert, "solution", ""),
     reference        |-> Get(alert, "reference", ""),
     instances        |-> Get(alert, "instances", <<>>),
     risk_level       |-> Classify(Get(alert, "riskdesc", <<>>)).risk_level,
     confidence_level |-> Classify(Get(alert, "riskdesc", <<>>)).confidence_level]

\* scan_info[file_path] of a site
SiteInfo(site_info) ==
    [name |-> Get(site_info, "@name", ""),
     host |-> Get(site_info, "@host", ""),
     port |-> Get(site_info, "@port", ""),
     ssl  |-> Get(site_info, "@ssl", FALSE)]

\* variant: the last site entry is read instead of the first
FileAlerts_LastSite(file_path, data) ==
    LET site == Get(data, "site", <<>>)
    IN  IF site # <<>>
        THEN LET alerts == Get(site[Len(site)], "alerts", <<>>)
             IN  [i \in 1..Len(alerts) |-> AlertInfo(file_path, alerts[i])]
        ELSE <<>>

\* variant: a site without alerts yields one empty alert entry
FileAlerts_Placeholder(file_path, data) ==
    LET site == Get(data, "site", <<EmptyDict>>)
    IN  IF site # <<>>
        THEN LET alerts == Get(site[1], "alerts", <<EmptyDict>>)
             IN  [i \in 1..Len(alerts) |-> AlertInfo(file_path, alerts[i])]
        ELSE <<>>

\* the alert records one parsed document adds to all_alerts
FileAlerts(file_path, data) ==
    LET site == Get(data, "site", <<>>)
    IN  IF site # <<>>
        THEN LET alerts == Get(site[1], "alerts", <<>>)
             IN  [i \in 1..Len(alerts) |-> AlertInfo(file_path, alerts[i])]
        ELSE <<>>

\* scan_info after one parsed document
FileScanInfo(info, file_path, data) ==
    LET site == Get(data, "site", <<>>)
    IN  IF site # <<>>
        THEN (file_path :> SiteInfo(site[1])) @@ info
        ELSE info

\* risk_counts before the counting loop
InitialCounts ==
    [level \in DOMAIN RISK_LEVELS |-> 0] @@ (Unknown :> 0)

\* the counter an alert of the given level goes to
Bucket(risk_level) ==
    IF risk_level \in DOMAIN InitialCounts THEN risk_level ELSE Unknown

\* variant: an unrecognised level gets a counter of its own
RiskCounts_OwnKey(alerts) ==
    [key \in DOMAIN InitialCounts \cup {alerts[i].risk_level : i \in 1..Len(alerts)} |->
        Cardinality({i \in 1..Len(alerts) : alerts[i].risk_level = key})]

\* risk_counts after the counting loop over alerts: every alert has added 1
\* to the counter of its bucket
RiskCounts(alerts) ==
    [key \in DOMAIN InitialCounts |->
        InitialCounts[key]
        + Cardinality({i \in 1..Len(alerts) : Bucket(alerts[i].risk_level) = key})]

\* the sort key: RISK_LEVELS.get(x['risk_level'], {'priority': 0})['priority']
Priority(alert) ==
    Get(RISK_LEVELS, alert.risk_level, [priority |-> 0]).priority

\* a list with its entries evaluated once
List(f) == SubSeq(f, 1, Len(f))

\* list.reverse()
Reverse(s) == List([i \in 1..Len(s) |-> s[Len(s) + 1 - i]])

\* the stable ascending sort underneath sorted(): an entry goes behind every
\* entry of smaller key and every earlier entry of equal key
StableSortAsc(s) ==
    LET key == List([i \in 1..Len(s) |-> Priority(s[i])])
        place == List([i \in 1..Len(s) |->
                    Cardinality({j \in 1..Len(s) :
                        \/ key[j] < key[i]
                        \/ key[j] = key[i] /\ j <= i})])
    IN  [p \in 1..Len(s) |-> s[CHOOSE i \in 1..Len(s) : place[i] = p]]

\* variant: ascending sort reversed afterwards, equal keys end up swapped
SortedAlerts_SortThenReverse(alerts) == Reverse(StableSortAsc(alerts))

\* sorted(all_alerts, key=..., reverse=True): reverse, stable sort, reverse
SortedAlerts(alerts) == Reverse(StableSortAsc(Reverse(alerts)))

\* the number of alerts kept in the summary
TopN == 20

\* variant: no truncation
Take_All(s, n) == s

\* s[:n]
Take(s, n) == SubSeq(s, 1, IF Len(s) < n THEN Len(s) ELSE n)

\* variant: total_alerts is the length of the truncated detail list
Summary_TotalOfDetail(alerts, info) ==
    LET risk_counts == RiskCounts(alerts)
    IN  [total_alerts       |-> Len(Take(SortedAlerts(alerts), TopN)),
         high_risk_count    |-> risk_counts[High],
         medium_risk_count  |-> risk_counts[Medium],
         low_risk_count     |-> risk_counts[Low],
         info_risk_count    |-> risk_counts[Informational],
         unknown_risk_count |-> risk_counts[Unknown],
         risk_counts        |-> risk_counts,
         scan_info          |-> info,
         alerts             |-> Take(SortedAlerts(alerts), TopN),
         overall_status     |-> IF risk_counts[High] > 0 THEN "fail" ELSE "pass"]

\* variant: Medium alerts fail the run as well
Summary_FailOnMedium(alerts, info) ==
    LET risk_counts == RiskCounts(alerts)
    IN  [total_alerts       |-> Len(alerts),
         high_risk_count    |-> risk_counts[High],
         medium_risk_count  |-> risk_counts[Medium],
         low_risk_count     |-> risk_counts[Low],
         info_risk_count    |-> risk_counts[Informational],
         unknown_risk_count |-> risk_counts[Unknown],
         risk_counts        |-> risk_counts,
         scan_info          |-> info,
         alerts             |-> Take(SortedAlerts(alerts), TopN),
         overall_status     |-> IF risk_counts[High] + risk_counts[Medium] > 0
                                THEN "fail" ELSE "pass"]

\* the summary built from all_alerts and scan_info
Summary(alerts, info) ==
    LET risk_counts == RiskCounts(alerts)
    IN  [total_alerts       |-> Len(alerts),
         high_risk_count    |-> risk_counts[High],
         medium_risk_count  |-> risk_counts[Medium],
         low_risk_count     |-> risk_counts[Low],
         info_risk_count    |-> risk_counts[Informational],
         unknown_risk_count |-> risk_counts[Unknown],
         risk_counts        |-> risk_counts,
         scan_info          |-> info,
         alerts             |-> Take(SortedAlerts(alerts), TopN),
         overall_status     |-> IF risk_counts[High] > 0 THEN "fail" ELSE "pass"]

\* ---- scan files of the security pipeline
\* an alert entry of a document
Alert(name, riskdesc) == [name |-> name, riskdesc |-> riskdesc]

Site(name, alerts) ==
    ("@name" :> name) @@ ("@host" :> "localhost") @@ ("@port" :> "8080")
    @@ ("@ssl" :> FALSE) @@ ("alerts" :> alerts)

\* riskdesc values cycled through by the long document
Cycle == <<Low \o Sep \o Medium, Medium \o Sep \o High, High \o Sep \o Low,
           Informational \o Sep \o Medium, <<"n", "/", "a">>>>

\* number of alerts of the long document
BigLen == 25

\* what open() and json.load() give for each path
Files ==
    [missing |-> Missing,
     bad     |-> Malformed,
     nosite  |-> [generated |-> "today"],
     emptysite |-> [site |-> <<>>],
     noalerts  |-> [site |-> <<("@name" :> "http://quiet") @@ ("@ssl" :> TRUE)>>],
     rank    |-> [site |-> <<Site("http://rank",
                    <<Alert("r1", Low \o Sep \o Medium),
                      Alert("r2", High \o Sep \o Medium),
                      Alert("r3", Informational \o Sep \o High),
                      Alert("r4", Medium \o Sep \o Low),
                      Alert("r5", High \o Sep \o Low)>>)>>],
     mixed   |-> [site |-> <<Site("http://mixed",
                    <<Alert("m1", High \o Sep \o Medium),
                      Alert("m2", High \o Sep \o Medium \o Sep \o Low),
                      Alert("m3", Medium \o Sep \o High),
                      Alert("m4", <<"C", "r", "i", "t">> \o Sep \o High),
                      Alert("m5", <<"h", "i", "g", "h">> \o Sep \o Medium),
                      Alert("m6", <<"g", "a", "r", "b", "a", "g", "e">>),
                      [name |-> "m7", desc |-> "no riskdesc", instances |-> <<"u1", "u2">>],
                      Alert("m8", Unknown \o Sep \o Low),
                      Alert("m9", Sep \o Medium),
                      Alert("m10", Low \o <<" ", "-">> \o Medium)>>)>>],
     nohigh  |-> [site |-> <<Site("http://nohigh",
                    <<Alert("n1", Medium \o Sep \o Medium),
                      Alert("n2", Low \o Sep \o High),
                      Alert("n3", Informational \o Sep \o Low),
                      Alert("n4", Medium \o Sep \o Low),
                      Alert("n5", <<"n", "/", "a">>)>>)>>],
     sample  |-> [site |-> <<Site("http://sample",
                    <<Alert("e1", High \o Sep \o Medium),
                      Alert("e2", High \o Sep \o Low),
                      Alert("e3", Medium \o Sep \o Medium),
                      Alert("e4", <<"U", "n", "r", "e", "c">> \o Sep \o Low)>>)>>],
     big     |-> [site |-> <<Site("http://big",
                    [i \in 1..BigLen |->
                        Alert("b" \o ToString(i), Cycle[(i % Len(Cycle)) + 1])])>>],
     multi   |-> [site |-> <<Site("http://first", <<Alert("s1", Low \o Sep \o Medium)>>),
                             Site("http://second", <<Alert("s2", High \o Sep \o High)>>)>>]]

Paths == DOMAIN Files

\* ---- main() of analyze-security.py
SecInit ==
    /\ sec_pc = "ingest"
    /\ results_files \in UNION {[1..n -> Paths] : n \in 1..MaxFiles}
    /\ file_idx = 0
    /\ all_alerts = <<>>
    /\ scan_info = EmptyDict
    /\ warnings = <<>>
    /\ sorted_alerts = <<>>
    /\ sec_summary = NoSummary
    /\ fail_on_high \in BOOLEAN
    /\ sec_written = <<>>
    /\ sec_exit = NoExit
    /\ PerfIdle

\* the path the for loop of analyze_zap_results is at
file_path == results_files[file_idx + 1]

InLoop == sec_pc = "ingest" /\ file_idx < Len(results_files)

\* variant: a missing file ends the loop (break instead of continue)
SecFileNotFound_Break ==
    /\ InLoop
    /\ Files[file_path] = Missing
    /\ warnings' = Append(warnings, <<"not found", file_path>>)
    /\ file_idx' = Len(results_files)
    /\ UNCHANGED <<sec_pc, results_files, all_alerts, scan_info, sorted_alerts,
                   sec_summary, fail_on_high, sec_written, sec_exit>>
    /\ UNCHANGED perf_vars

\* one iteration: open() raises FileNotFoundError, a warning, continue
SecFileNotFound ==
    /\ InLoop
    /\ Files[file_path] = Missing
    /\ warnings' = Append(warnings, <<"not found", file_path>>)
    /\ file_idx' = file_idx + 1
    /\ UNCHANGED <<sec_pc, results_files, all_alerts, scan_info, sorted_alerts,
                   sec_summary, fail_on_high, sec_written, sec_exit>>
    /\ UNCHANGED perf_vars

\* one iteration: json.load() raises JSONDecodeError, a warning, continue
SecJSONDecodeError ==
    /\ InLoop
    /\ Files[file_path] = Malformed
    /\ warnings' = Append(warnings, <<"cannot parse", file_path>>)
    /\ file_idx' = file_idx + 1
    /\ UNCHANGED <<sec_pc, results_files, all_alerts, scan_info, sorted_alerts,
                   sec_summary, fail_on_high, sec_written, sec_exit>>
    /\ UNCHANGED perf_vars

\* variant: the alerts of a file are put in front of the earlier ones
SecIngestFile_Prepend ==
    /\ InLoop
    /\ IsDoc(Files[file_path])
    /\ scan_info' = FileScanInfo(scan_info, file_path, Files[file_path])
    /\ all_alerts' = FileAlerts(file_path, Files[file_path]) \o all_alerts
    /\ file_idx' = file_idx + 1
    /\ UNCHANGED <<sec_pc, results_files, warnings, sorted_alerts,
                   sec_summary, fail_on_high, sec_written, sec_exit>>
    /\ UNCHANGED perf_vars

\* one iteration: the document parses, its first site's info and alerts are taken
SecIngestFile ==
    /\ InLoop
    /\ IsDoc(Files[file_path])
    /\ scan_info' = FileScanInfo(scan_info, file_path, Files[file_path])
    /\ all_alerts' = all_alerts \o FileAlerts(file_path, Files[file_path])
    /\ file_idx' = file_idx + 1
    /\ UNCHANGED <<sec_pc, results_files, warnings, sorted_alerts,
                   sec_summary, fail_on_high, sec_written, sec_exit>>
    /\ UNCHANGED perf_vars

\* after the loop: count, sort, build and return the summary
SecAggregate ==
    /\ sec_pc = "ingest"
    /\ file_idx = Len(results_files)
    /\ sorted_alerts' = SortedAlerts(all_alerts)
    /\ sec_summary' = Summary(all_alerts, scan_info)
    /\ sec_pc' = "write_report"
    /\ UNCHANGED <<results_files, file_idx, all_alerts, scan_info, warnings,
                   fail_on_high, sec_written, sec_exit>>
    /\ UNCHANGED perf_vars

\* with open(args.output, 'w') ...: f.write(report)
SecWriteReport ==
    /\ sec_pc = "write_report"
    /\ sec_written' = Append(sec_written, "report")
    /\ sec_pc' = "write_json"
    /\ UNCHANGED <<results_files, file_idx, all_alerts, scan_info, warnings,
                   sorted_alerts, sec_summary, fail_on_high, sec_exit>>
    /\ UNCHANGED perf_vars

\* with open(args.json, 'w') ...: json.dump(summary, ...)
SecWriteJson ==
    /\ sec_pc = "write_json"
    /\ sec_written' = Append(sec_written, "json")
    /\ sec_pc' = "decide_exit"
    /\ UNCHANGED <<results_files, file_idx, all_alerts, scan_info, warnings,
                   sorted_alerts, sec_summary, fail_on_high, sec_exit>>
    /\ UNCHANGED perf_vars

\* variant: High alerts end the process with 1 whether or not the flag is set
SecDecideExit_IgnoreFlag ==
    /\ sec_pc = "decide_exit"
    /\ sec_exit' = IF sec_summary.high_risk_count > 0 THEN 1 ELSE 0
    /\ sec_pc' = "exited"
    /\ UNCHANGED <<results_files, file_idx, all_alerts, scan_info, warnings,
                   sorted_alerts, sec_summary, fail_on_high, sec_written>>
    /\ UNCHANGED perf_vars

\* variant: with the flag set, any alert ends the process with 1
SecDecideExit_AnyAlert ==
    /\ sec_pc = "decide_exit"
    /\ sec_exit' = IF fail_on_high /\ sec_summary.total_alerts > 0 THEN 1 ELSE 0
    /\ sec_pc' = "exited"
    /\ UNCHANGED <<results_files, file_idx, all_alerts, scan_info, warnings,
                   sorted_alerts, sec_summary, fail_on_high, sec_written>>
    /\ UNCHANGED perf_vars

\* if args.fail_on_high and summary['high_risk_count'] > 0: sys.exit(1)
SecDecideExit ==
    /\ sec_pc = "decide_exit"
    /\ sec_exit' = IF fail_on_high /\ sec_summary.high_risk_count > 0 THEN 1 ELSE 0
    /\ sec_pc' = "exited"
    /\ UNCHANGED <<results_files, file_idx, all_alerts, scan_info, warnings,
                   sorted_alerts, sec_summary, fail_on_high, sec_written>>
    /\ UNCHANGED perf_vars

SecNext ==
    \/ SecFileNotFound \/ SecJSONDecodeError \/ SecIngestFile \/ SecAggregate
    \/ SecWriteReport \/ SecWriteJson \/ SecDecideExit

SpecSec == SecInit /\ [][SecNext]_vars

\* both command-line tools
Init == PerfInit \/ SecInit
Next == PerfNext \/ SecNext
Spec == Init /\ [][Next]_vars

\* ===================================================== verified claims
AtMost == {"avg_response_time", "p95_response_time", "p99_response_time", "error_rate"}
AtLeast == {"throughput"}

\* the value the input document holds for a policy metric, 0 when it or any
\* mapping on the way to it is absent; the failure rate is a fraction and is
\* judged as a percentage
InputField(path) ==
    IF ~ IsDoc(results_file) \/ "metrics" \notin DOMAIN results_file THEN 0
    ELSE IF path[1] \notin DOMAIN results_file.metrics THEN 0
    ELSE IF path[2] \notin DOMAIN results_file.metrics[path[1]] THEN 0
    ELSE results_file.metrics[path[1]][path[2]]
InputValue ==
    [avg_response_time |-> InputField(<<"http_req_duration", "avg">>),
     p95_response_time |-> InputField(<<"http_req_duration", "p(95)">>),
     p99_response_time |-> InputField(<<"http_req_duration", "p(99)">>),
     error_rate        |-> 100 * InputField(<<"http_req_failed", "rate">>),
     throughput        |-> InputField(<<"http_reqs", "rate">>)]
InputHas(path) ==
    /\ IsDoc(results_file) /\ "metrics" \in DOMAIN results_file
    /\ path[1] \in DOMAIN results_file.metrics
    /\ path[2] \in DOMAIN results_file.metrics[path[1]]
PerfReturned == perf_summary # NoSummary

\* C1: every AT_MOST metric has passed = TRUE exactly when its value is at
\* most its limit, and throughput exactly when its value is at least its
\* limit; both boundaries are inclusive.
C1_ThresholdDirection ==
    PerfReturned =>
        /\ \A m \in AtMost :
              perf_summary.results[m].passed = (InputValue[m] <= Threshold[m] * Scale)
        /\ \A m \in AtLeast :
              perf_summary.results[m].passed = (InputValue[m] >= Threshold[m] * Scale)
        /\ \A m \in AtMost \cup AtLeast :
              InputValue[m] = Threshold[m] * Scale => perf_summary.results[m].passed

\* C1 witness: one run with a metric on its limit (passes), an AT_MOST metric
\* one unit above (fails) and throughput one unit below (fails).
C1_Witness ==
    /\ PerfReturned
    /\ InputValue.avg_response_time = 500 * Scale
    /\ perf_summary.results.avg_response_time.passed
    /\ InputValue.error_rate = 1 * Scale
    /\ perf_summary.results.error_rate.passed
    /\ InputValue.p95_response_time = 1000 * Scale + 1
    /\ ~ perf_summary.results.p95_response_time.passed
    /\ InputValue.throughput = 100 * Scale - 1
    /\ ~ perf_summary.results.throughput.passed

\* C2: overall_status is 'pass' if and only if every per-metric verdict has
\* passed = TRUE.
C2_OverallIffAllPass ==
    PerfReturned =>
        ((perf_summary.overall_status = "pass")
            <=> (\A m \in DOMAIN perf_summary.results : perf_summary.results[m].passed))
        /\ perf_summary.overall_status \in {"pass", "fail"}

\* C2 witness: four passing metrics and one failing one give 'fail'.
C2_Witness ==
    /\ PerfReturned
    /\ Cardinality({m \in DOMAIN perf_summary.results : perf_summary.results[m].passed}) = 4
    /\ ~ perf_summary.results.p99_response_time.passed
    /\ perf_summary.overall_status = "fail"

\* C3: exactly one verdict per policy entry whatever the input holds: unknown
\* input names give no verdict, an absent policy metric is judged with value 0.
C3_OneVerdictPerPolicyEntry ==
    PerfReturned =>
        /\ DOMAIN perf_summary.results =
              {"avg_response_time", "p95_response_time", "p99_response_time",
               "error_rate", "throughput"}
        /\ ~ InputHas(<<"http_req_duration", "avg">>) =>
              /\ perf_summary.results.avg_response_time.value = 0
              /\ perf_summary.results.avg_response_time.passed
        /\ ~ InputHas(<<"http_req_duration", "p(95)">>) =>
              /\ perf_summary.results.p95_response_time.value = 0
              /\ perf_summary.results.p95_response_time.passed
        /\ ~ InputHas(<<"http_req_duration", "p(99)">>) =>
              /\ perf_summary.results.p99_response_time.value = 0
              /\ perf_summary.results.p99_response_time.passed
        /\ ~ InputHas(<<"http_req_failed", "rate">>) =>
              /\ perf_summary.results.error_rate.value = 0
              /\ perf_summary.results.error_rate.passed
        /\ ~ InputHas(<<"http_reqs", "rate">>) =>
              /\ perf_summary.results.throughput.value = 0
              /\ ~ perf_summary.results.throughput.passed

\* C3 witness: a document with an unknown metric name and policy metrics
\* missing, for which five verdicts were returned.
C3_Witness ==
    /\ PerfReturned
    /\ "metrics" \in DOMAIN results_file
    /\ "iterations" \in DOMAIN results_file.metrics
    /\ ~ InputHas(<<"http_req_duration", "p(95)">>)
    /\ ~ InputHas(<<"http_reqs", "rate">>)
    /\ InputHas(<<"http_req_duration", "avg">>)
    /\ Cardinality(DOMAIN perf_summary.results) = 5

\* ---- security pipeline
SecReturned == sec_summary # NoSummary
KnownLevels == {High, Medium, Low, Informational}
FiveLevels == KnownLevels \cup {Unknown}

\* number of ingested alerts whose risk_level is in the set of levels
NumWithLevel(levels) ==
    Cardinality({i \in 1..Len(all_alerts) : all_alerts[i].risk_level \in levels})
NumUnrecognised ==
    Cardinality({i \in 1..Len(all_alerts) : all_alerts[i].risk_level \notin KnownLevels})

\* C4: overall_status of the security summary is 'fail' if and only if the
\* High count is greater than 0; other levels never flip it.
C4_FailIffHigh ==
    SecReturned =>
        /\ sec_summary.overall_status \in {"pass", "fail"}
        /\ (sec_summary.overall_status = "fail") <=> (NumWithLevel({High}) > 0)
        /\ (sec_summary.overall_status = "fail") <=> (sec_summary.high_risk_count > 0)

\* C4 witness: Medium, Low, Informational and unrecognised alerts, no High
\* one, and the status is 'pass'.
C4_Witness ==
    /\ SecReturned
    /\ NumWithLevel({High}) = 0
    /\ NumWithLevel({Medium}) > 1
    /\ NumWithLevel({Low}) > 0
    /\ NumWithLevel({Informational}) > 0
    /\ NumUnrecognised > 0
    /\ sec_summary.overall_status = "pass"

\* C5: with the separator ' - ' in the raw risk description, risk_level is the
\* text before its first occurrence and confidence_level the whole remainder
\* after that occurrence (further separators included); without it both are
\* 'Unknown'.
C5_RemainderIsConfidence ==
    \A i \in 1..Len(all_alerts) :
        LET d == all_alerts[i].riskdesc
            first == Find(d, Sep, 1)
        IN  IF first # 0
            THEN /\ all_alerts[i].risk_level = SubSeq(d, 1, first - 1)
                 /\ all_alerts[i].confidence_level = SubSeq(d, first + Len(Sep), Len(d))
            ELSE /\ all_alerts[i].risk_level = Unknown
                 /\ all_alerts[i].confidence_level = Unknown

\* C6: the counts mapping has exactly the five keys, and each alert is counted
\* once: under its risk_level when that is one of the four known levels
\* (exact match), under Unknown otherwise.
C6_FiveCounters ==
    SecReturned =>
        /\ DOMAIN sec_summary.risk_counts = FiveLevels
        /\ \A level \in KnownLevels :
              sec_summary.risk_counts[level] = NumWithLevel({level})
        /\ sec_summary.risk_counts[Unknown] = NumUnrecognised
        /\ sec_summary.high_risk_count = NumWithLevel({High})
        /\ sec_summary.medium_risk_count = NumWithLevel({Medium})
        /\ sec_summary.low_risk_count = NumWithLevel({Low})
        /\ sec_summary.info_risk_count = NumWithLevel({Informational})
        /\ sec_summary.unknown_risk_count = NumUnrecognised

\* C6 witness: [High, High, Medium, Unrecognized] counted as 2, 1, 0, 0, 1.
C6_Witness ==
    /\ SecReturned
    /\ Len(all_alerts) = 4
    /\ all_alerts[1].risk_level = High /\ all_alerts[2].risk_level = High
    /\ all_alerts[3].risk_level = Medium
    /\ all_alerts[4].risk_level = <<"U", "n", "r", "e", "c">>
    /\ sec_summary.risk_counts[High] = 2
    /\ sec_summary.risk_counts[Medium] = 1
    /\ sec_summary.risk_counts[Low] = 0
    /\ sec_summary.risk_counts[Informational] = 0
    /\ sec_summary.risk_counts[Unknown] = 1

\* severity rank of a risk level
Rank(level) ==
    IF level = High THEN 4
    ELSE IF level = Medium THEN 3
    ELSE IF level = Low THEN 2
    ELSE IF level = Informational THEN 1
    ELSE 0
WithRank(alerts, r) == SelectSeq(alerts, LAMBDA a : Rank(a.risk_level) = r)
\* the alerts by rank descending, equal ranks in ingestion order
RankSorted(alerts) ==
    WithRank(alerts, 4) \o WithRank(alerts, 3) \o WithRank(alerts, 2)
    \o WithRank(alerts, 1) \o WithRank(alerts, 0)

\* C7: the ranked view is the ingested sequence sorted by severity rank
\* descending, alerts of equal rank keeping their ingestion order.
C7_StableRankSort ==
    SecReturned => sorted_alerts = RankSorted(all_alerts)

\* C7 witness: [Low, High, Informational, Medium, High] became
\* [High, High, Medium, Low, Informational], the High entries in input order.
C7_Witness ==
    /\ SecReturned
    /\ [i \in 1..Len(all_alerts) |-> all_alerts[i].name] = <<"r1", "r2", "r3", "r4", "r5">>
    /\ [i \in 1..Len(all_alerts) |-> all_alerts[i].risk_level]
          = <<Low, High, Informational, Medium, High>>
    /\ [i \in 1..Len(sorted_alerts) |-> sorted_alerts[i].name]
          = <<"r2", "r5", "r4", "r1", "r3">>

Min(a, b) == IF a < b THEN a ELSE b

\* C8: the detail list is the first min(n, 20) entries of the rank-sorted
\* sequence; total_alerts and the counts cover all n alerts.
C8_TruncatedDetailFullCounts ==
    SecReturned =>
        /\ Len(sec_summary.alerts) = Min(Len(all_alerts), 20)
        /\ sec_summary.alerts
              = SubSeq(RankSorted(all_alerts), 1, Min(Len(all_alerts), 20))
        /\ sec_summary.total_alerts = Len(all_alerts)
        /\ sec_summary.high_risk_count + sec_summary.medium_risk_count
              + sec_summary.low_risk_count + sec_summary.info_risk_count
              + sec_summary.unknown_risk_count = Len(all_alerts)

\* C8 witness: 25 or more alerts, a detail list of 20, counts over all.
C8_Witness ==
    /\ SecReturned
    /\ Len(all_alerts) >= 25
    /\ Len(sec_summary.alerts) = 20
    /\ sec_summary.total_alerts = Len(all_alerts)
    /\ sec_summary.high_risk_count = NumWithLevel({High})
    /\ sec_summary.high_risk_count > 0

\* the paths the loop has been through, and whether a path was read and parsed
Processed == SubSeq(results_files, 1, file_idx)
Parses(path) == Files[path] \notin {Missing, Malformed}
\* number of alert entries under the first site of a parsed document
NumEntries(path) ==
    IF "site" \in DOMAIN Files[path] /\ Len(Files[path].site) > 0
       /\ "alerts" \in DOMAIN Files[path].site[1]
    THEN Len(Files[path].site[1].alerts) ELSE 0
RECURSIVE SumEntries(_)
SumEntries(paths) ==
    IF paths = <<>> THEN 0
    ELSE SumEntries(Tail(paths)) + (IF Parses(Head(paths)) THEN NumEntries(Head(paths)) ELSE 0)

LacksSite(path) == Parses(path) /\ "site" \notin DOMAIN Files[path]
LacksAlerts(path) ==
    /\ Parses(path) /\ "site" \in DOMAIN Files[path]
    /\ Len(Files[path].site) > 0
    /\ "alerts" \notin DOMAIN Files[path].site[1]

\* C10: a parsed document without "site", or whose site has no "alerts",
\* adds no alert and does not stop the pipeline.
C10_MissingFieldsDefault ==
    /\ \A k \in 1..file_idx :
          (LacksSite(results_files[k]) \/ LacksAlerts(results_files[k])) =>
              \A i \in 1..Len(all_alerts) : all_alerts[i].file # results_files[k]
    /\ \A k \in 1..Len(results_files) :
          (k = file_idx + 1 /\ sec_pc = "ingest"
           /\ (LacksSite(results_files[k]) \/ LacksAlerts(results_files[k]))) =>
              ENABLED SecIngestFile
    /\ sec_pc = "exited" => SecReturned /\ file_idx = Len(results_files)

\* C10 witness: a run over a document without "site" and one without
\* "alerts" that came to its end with no alert.
C10_Witness ==
    /\ sec_pc = "exited"
    /\ \E k \in 1..Len(results_files) : LacksSite(results_files[k])
    /\ \E k \in 1..Len(results_files) : LacksAlerts(results_files[k])
    /\ sec_summary.total_alerts = 0
    /\ sec_summary.alerts = <<>>

\* ---- command-line tools
\* C11: for both command-line tools the exit code is 0 when the computed
\* overall status is 'pass' and non-zero when it is 'fail'.
C11_ExitFollowsStatus ==
    /\ (perf_pc = "exited" /\ PerfReturned) =>
          ((perf_exit = 0) <=> (perf_summary.overall_status = "pass"))
    /\ sec_pc = "exited" =>
          ((sec_exit = 0) <=> (sec_summary.overall_status = "pass"))

\* C11 amended: the performance tool exits with 0 on 'pass' and 1 on 'fail';
\* the security tool exits with 1 only when --fail-on-high is set and the
\* status is 'fail', and with 0 otherwise, also on 'fail' without the flag.
C11_ExitFollowsStatusOptIn ==
    /\ (perf_pc = "exited" /\ PerfReturned) =>
          /\ perf_summary.overall_status = "pass" => perf_exit = 0
          /\ perf_summary.overall_status = "fail" => perf_exit = 1
    /\ sec_pc = "exited" =>
          /\ (fail_on_high /\ sec_summary.overall_status = "fail") => sec_exit = 1
          /\ (~ fail_on_high \/ sec_summary.overall_status = "pass") => sec_exit = 0

\* C11 witness: the security tool ended with status 'fail', no flag, code 0.
C11_Witness ==
    /\ sec_pc = "exited"
    /\ ~ fail_on_high
    /\ sec_summary.overall_status = "fail"
    /\ sec_exit = 0

\* C12: with --fail-on-high the exit code is non-zero if and only if
\* high_risk_count > 0; with the flag and no High alert it is 0.
C12_FailOnHigh ==
    (sec_pc = "exited" /\ fail_on_high) =>
        /\ (sec_exit # 0) <=> (NumWithLevel({High}) > 0)
        /\ (sec_exit # 0) <=> (sec_summary.high_risk_count > 0)
        /\ sec_exit \in {0, 1}

\* C12 witness: flag set, alerts but no High one, exit code 0.
C12_Witness ==
    /\ sec_pc = "exited"
    /\ fail_on_high
    /\ sec_summary.total_alerts > 0
    /\ sec_summary.high_risk_count = 0
    /\ sec_exit = 0

\* C13: in the metric pipeline a missing or unparseable result file ends the
\* process with a non-zero code and no summary, so no verdict exists; in the
\* alert pipeline the same failures are skipped and a summary is returned.
C13_FatalVersusRecoverable ==
    /\ (perf_pc # "analyze" /\ perf_pc # "idle" /\ ~ IsDoc(results_file)) =>
          /\ perf_pc = "exited"
          /\ perf_exit # NoExit /\ perf_exit # 0
          /\ perf_summary = NoSummary
          /\ perf_written = <<>>
    /\ (sec_pc \notin {"idle", "ingest"}) =>
          /\ SecReturned
          /\ DOMAIN sec_summary.risk_counts = FiveLevels
          /\ Len(warnings)
                = Cardinality({k \in 1..Len(results_files) : ~ Parses(results_files[k])})

\* C13 witness: the metric pipeline was given a missing or unparseable file
\* and has exited with 1 without a summary.
C13_Witness ==
    /\ perf_pc = "exited"
    /\ ~ IsDoc(results_file)
    /\ perf_exit = 1
    /\ perf_summary = NoSummary

\* C14: a performance document without a metrics structure has every value
\* 0: the four upper-limit metrics pass, throughput fails, all five verdicts
\* exist and the overall status is 'fail'.
C14_NoMetricsStructure ==
    (PerfReturned /\ "metrics" \notin DOMAIN results_file) =>
        /\ DOMAIN perf_summary.results = AtMost \cup AtLeast
        /\ \A m \in AtMost \cup AtLeast : perf_summary.results[m].value = 0
        /\ \A m \in AtMost : perf_summary.results[m].passed
        /\ \A m \in AtLeast : ~ perf_summary.results[m].passed
        /\ perf_summary.overall_status = "fail"

\* C14 witness: a parsed document that has other content but no metrics.
C14_Witness ==
    /\ PerfReturned
    /\ "metrics" \notin DOMAIN results_file
    /\ "state" \in DOMAIN results_file
    /\ perf_summary.overall_status = "fail"
    /\ Cardinality({m \in DOMAIN perf_summary.results : perf_summary.results[m].passed}) = 4

\* C19: main() analyses, writes the report, writes the JSON summary, then
\* decides the exit code: a 'fail' run has written both files before it
\* exits with 1; a missing or malformed input exits with 1 before any file
\* is written.
C19_WriteBeforeExit ==
    /\ perf_written \in {<<>>, <<"report">>, <<"report", "json">>}
    /\ perf_written # <<>> => PerfReturned
    /\ perf_exit # NoExit => perf_pc = "exited"
    /\ perf_pc = "exited" =>
          IF IsDoc(results_file)
          THEN /\ perf_written = <<"report", "json">>
               /\ perf_exit = (IF perf_summary.overall_status = "fail" THEN 1 ELSE 0)
          ELSE /\ perf_written = <<>>
               /\ perf_exit = 1

\* C19 witness: a 'fail' run that has exited with 1, both files written.
C19_Witness ==
    /\ perf_pc = "exited"
    /\ PerfReturned
    /\ perf_summary.overall_status = "fail"
    /\ perf_written = <<"report", "json">>
    /\ perf_exit = 1

\* ---- ingestion order, literal levels, totals, sites
\* the (path, name) pairs of the alert entries of the first site of each
\* parsed path, paths in list order, entries in document order
RECURSIVE ExpectedOrder(_)
ExpectedOrder(paths) ==
    IF paths = <<>> THEN <<>>
    ELSE LET path == paths[Len(paths)]
             n == IF Parses(path) THEN NumEntries(path) ELSE 0
         IN  ExpectedOrder(SubSeq(paths, 1, Len(paths) - 1))
             \o [i \in 1..n |-> <<path, Files[path].site[1].alerts[i].name>>]

\* C15: ingestion keeps order: alerts of an earlier path come before those
\* of a later path, alerts of one file keep their order in the file, and
\* skipped files do not reorder the rest.
C15_IngestionOrder ==
    [i \in 1..Len(all_alerts) |-> <<all_alerts[i].file, all_alerts[i].name>>]
        = ExpectedOrder(Processed)

\* C15 witness: two different parsed files with several alerts each.
C15_Witness ==
    /\ SecReturned
    /\ Len(results_files) = 2
    /\ results_files[1] # results_files[2]
    /\ Parses(results_files[1]) /\ NumEntries(results_files[1]) > 1
    /\ Parses(results_files[2]) /\ NumEntries(results_files[2]) > 1
    /\ all_alerts[1].file = results_files[1]
    /\ all_alerts[Len(all_alerts)].file = results_files[2]

\* the text of a raw risk description before its first separator
LiteralLevel(riskdesc) == SubSeq(riskdesc, 1, Find(riskdesc, Sep, 1) - 1)
\* an alert whose raw description names none of the four known levels
Unrecognised(alert) ==
    \/ Find(alert.riskdesc, Sep, 1) = 0
    \/ LiteralLevel(alert.riskdesc) \notin KnownLevels

\* C16: a risk string is never rejected or normalised: the text before the
\* separator stays the record's risk_level in the summary even when it is not
\* a known level, while the alert is counted under Unknown and ranked last;
\* aggregation does not change the records.
C16_LiteralLevelKept ==
    SecReturned =>
        /\ \A i \in 1..Len(sec_summary.alerts) :
              /\ Find(sec_summary.alerts[i].riskdesc, Sep, 1) # 0 =>
                    sec_summary.alerts[i].risk_level
                        = LiteralLevel(sec_summary.alerts[i].riskdesc)
              /\ \E j \in 1..Len(all_alerts) : all_alerts[j] = sec_summary.alerts[i]
        /\ sec_summary.unknown_risk_count
              = Cardinality({j \in 1..Len(all_alerts) : Unrecognised(all_alerts[j])})
        /\ \A i \in 1..(Len(sorted_alerts) - 1) :
              Unrecognised(sorted_alerts[i]) => Unrecognised(sorted_alerts[i + 1])

\* C16 witness: the summary lists an alert whose risk_level is the
\* unrecognised text 'Crit', and the Unknown counter has counted it.
C16_Witness ==
    /\ SecReturned
    /\ \E i \in 1..Len(sec_summary.alerts) :
          /\ sec_summary.alerts[i].risk_level = <<"C", "r", "i", "t">>
          /\ sec_summary.alerts[i].name = "m4"
    /\ sec_summary.unknown_risk_count = 7
    /\ sec_summary.high_risk_count = 2

\* C17: the five per-level counts add up to total_alerts, which is the number
\* of ingested alert records, not the length of the truncated detail list.
C17_CountsSumToTotal ==
    SecReturned =>
        /\ DOMAIN sec_summary.risk_counts = FiveLevels
        /\ sec_summary.risk_counts[High] + sec_summary.risk_counts[Medium]
              + sec_summary.risk_counts[Low] + sec_summary.risk_counts[Informational]
              + sec_summary.risk_counts[Unknown] = sec_summary.total_alerts
        /\ sec_summary.total_alerts = Len(all_alerts)
        /\ sec_summary.total_alerts = SumEntries(results_files)

\* C17 witness: more alerts than the detail list holds, counted in full.
C17_Witness ==
    /\ SecReturned
    /\ Len(sec_summary.alerts) = TopN
    /\ sec_summary.total_alerts > TopN
    /\ sec_summary.total_alerts = SumEntries(results_files)

\* a parsed document with more than one site entry
MultiSite(path) ==
    Parses(path) /\ "site" \in DOMAIN Files[path] /\ Len(Files[path].site) > 1
\* names of the alert entries of the k-th site of a document
SiteAlertNames(path, k) ==
    IF "alerts" \in DOMAIN Files[path].site[k]
    THEN {Files[path].site[k].alerts[i].name : i \in 1..Len(Files[path].site[k].alerts)}
    ELSE {}
\* a High alert entry under the first site of a parsed path
FirstSiteHasHigh(path) ==
    /\ Parses(path) /\ NumEntries(path) > 0
    /\ \E i \in 1..NumEntries(path) :
          LET alert == Files[path].site[1].alerts[i]
          IN  /\ "riskdesc" \in DOMAIN alert
              /\ Find(alert.riskdesc, Sep, 1) # 0
              /\ LiteralLevel(alert.riskdesc) = High

\* C18: of a document with several site entries only the first one is read:
\* its alerts and its metadata; alerts of later sites reach neither the alert
\* list, nor the counts, nor the overall status.
C18_FirstSiteOnly ==
    /\ \A k \in 1..file_idx :
          MultiSite(results_files[k]) =>
              /\ \A i \in 1..Len(all_alerts) :
                    all_alerts[i].file = results_files[k] =>
                        all_alerts[i].name \in SiteAlertNames(results_files[k], 1)
              /\ results_files[k] \in DOMAIN scan_info
              /\ scan_info[results_files[k]].name = Files[results_files[k]].site[1]["@name"]
    /\ SecReturned =>
          /\ sec_summary.total_alerts = SumEntries(results_files)
          /\ (sec_summary.overall_status = "fail")
                <=> (\E k \in 1..Len(results_files) : FirstSiteHasHigh(results_files[k]))

\* C18 witness: only the two-site document was read; its second site holds a
\* High alert, yet one Low alert was counted and the status is 'pass'.
C18_Witness ==
    /\ SecReturned
    /\ results_files = <<"multi">>
    /\ "s2" \in SiteAlertNames("multi", 2)
    /\ sec_summary.total_alerts = 1
    /\ sec_summary.low_risk_count = 1
    /\ sec_summary.high_risk_count = 0
    /\ sec_summary.overall_status = "pass"
    /\ sec_summary.scan_info["multi"].name = "http://first"

====
